---- MODULE Spec2Model ----
(***************************************************************************)
(* The Mandelbrot batch job of src/main.rs as a state machine: main loads  *)
(* the configuration, generates the grid, partitions it with               *)
(* grid_data.chunks(len / threads), spawns one tokio task per chunk, drains *)
(* the std mpsc progress channel until it is closed, joins the tasks in     *)
(* spawn order and exports.  Each spawned task evaluates its chunk sample   *)
(* by sample and sends progress on its clone of the sender.                 *)
(*                                                                         *)
(* Coordinates are integers: for integer-valued f64 inputs of this size     *)
(* every f64 addition, multiplication and comparison of the program is      *)
(* exact, so the integer arithmetic below is the program's arithmetic.      *)
(* A modulus |z| is carried as its square (field sq): |z| > bound is        *)
(* decided as sq > bound * bound.                                           *)
(***************************************************************************)
EXTENDS Integers, Sequences, FiniteSets, Bags, TLC

VARIABLES
    pc,                 \* position of main
    file,               \* config.toml as the program finds / leaves it
    config,             \* main's `config`
    grid_data,          \* main's `grid_data`
    grid_data_vecs,     \* main's `grid_data_vecs` (the chunks)
    workers,            \* one record per spawned task, in spawn order
    senders,            \* live Sender handles: 0 is main's, w is task w's clone
    queue,              \* signals sent and not yet received
    emitted,            \* history: per task, the signals it has sent
    total_progress,     \* main's `total_progress`
    progress_percentage,\* the last percentage printed, in hundredths
    joined,             \* number of join handles awaited so far
    points_done_vec,    \* main's `points_done_vec`
    exported,           \* rows written to mandelbrot.csv
    eval                \* one call of mandelbrot_result, pass by pass

main_vars == << pc, file, config, grid_data, grid_data_vecs, workers, senders,
               queue, emitted, total_progress, progress_percentage, joined,
               points_done_vec, exported >>

vars == << main_vars, eval >>

-----------------------------------------------------------------------------
(* Bounds of the explored inputs *)

MaxExtent == 2
MaxDelta == 2
MaxThreads == 3
BigExtent == 1000
MaxCoord == 2
MaxIterations == 3
MaxBound == 2

(* Program constants *)

BATCH == 1000
DEFAULT_ITERATIONS == 200
DEFAULT_BOUND == 2
DEFAULT_THREADS == 1

-----------------------------------------------------------------------------
(* Data *)

Grid(re_min, re_max, im_min, im_max, delta) ==
    [re_min |-> re_min, re_max |-> re_max, im_min |-> im_min,
     im_max |-> im_max, delta |-> delta]

Config(grid, iterations, bound, threads) ==
    [grid |-> grid, iterations |-> iterations, bound |-> bound, threads |-> threads]

\* Grid::default / Config::default.  The default rectangle
\* [-1.45, 0.45] x [-0.9, 0.9] is taken at integer resolution (bounds
\* truncated, delta 1); iterations, bound and threads are the program's.
DefaultGrid == Grid(-1, 0, 0, 0, 1)

DefaultConfig == Config(DefaultGrid, DEFAULT_ITERATIONS, DEFAULT_BOUND, DEFAULT_THREADS)

\* `config` before the match at line 102 has bound it
NoConfig == Config(Grid(0, 0, 0, 0, 0), 0, 0, 0)

\* f64::NAN and a finite modulus, as values of Point.value
NAN == [nan |-> TRUE, sq |-> 0]

Modulus(sq) == [nan |-> FALSE, sq |-> sq]

Point(position, value) == [position |-> position, value |-> value]

-----------------------------------------------------------------------------
(* Complex arithmetic and the escape-time evaluator *)

CAdd(a, b) == << a[1] + b[1], a[2] + b[2] >>

CMul(a, b) == << a[1] * b[1] - a[2] * b[2], a[1] * b[2] + a[2] * b[1] >>

AbsSq(z) == z[1] * z[1] + z[2] * z[2]

ExceedsInverted(z, bound) == AbsSq(z) < bound * bound

ExceedsOrEqual(z, bound) == AbsSq(z) >= bound * bound

\* z.abs() > bound
Exceeds(z, bound) == AbsSq(z) > bound * bound

\* one pass of the loop body `z = z * z + c; if z.abs() > bound { break }`.
\* A loop that has broken is recognised by |z| > bound: the loop starts at
\* z = 0, which no bound >= 0 classifies as escaped.
LoopBody(z, c, bound) ==
    IF Exceeds(z, bound) THEN z ELSE CAdd(CMul(z, z), c)

\* the for loop of mandelbrot_result: n passes of the body from z0.  The
\* passes are composed by halves, each half evaluated once, which keeps
\* iterations = 200 within the evaluation depth of the model checker.
Iterate(z0, c, n0, bound) ==
    LET Passes[n \in Nat, z \in Int \X Int] ==
            IF n = 0 THEN z
            ELSE IF n = 1 THEN LoopBody(z, c, bound)
            ELSE Passes[n - (n \div 2), Passes[n \div 2, z]]
    IN  Passes[n0, z0]

mandelbrot_result(point, cfg) ==
    LET z == Iterate(<<0, 0>>, point.position, cfg.iterations, cfg.bound)
    IN  IF Exceeds(z, cfg.bound)
        THEN Point(point.position, NAN)
        ELSE Point(point.position, Modulus(AbsSq(z)))

-----------------------------------------------------------------------------
(* mandelbrot_result, lines 62-78, pass by pass: eval.c is point.position,   *)
(* eval.z the accumulator, eval.i the number of passes of the loop body run, *)
(* eval.value the point.value it returns                                     *)

EvalIdle ==
    [c |-> <<0, 0>>, iterations |-> 0, bound |-> 0, z |-> <<0, 0>>, i |-> 0,
     st |-> "idle", value |-> Modulus(0)]

\* the call: `let mut z = Complex::new(0.0, 0.0)`, point.value as generated
EvalCall(c, iterations, bound) ==
    [c |-> c, iterations |-> iterations, bound |-> bound, z |-> <<0, 0>>,
     i |-> 0, st |-> "loop", value |-> Modulus(0)]

\* one pass: z = z * z + c; if z.abs() > config.bound { break }
EvalPass ==
    /\ eval.st = "loop"
    /\ eval.i < eval.iterations
    /\ LET z1 == CAdd(CMul(eval.z, eval.z), eval.c)
       IN  eval' = [eval EXCEPT !.z = z1, !.i = @ + 1,
                                !.st = IF Exceeds(z1, eval.bound)
                                       THEN "after" ELSE "loop"]
    /\ UNCHANGED main_vars

\* the range 0..config.iterations is exhausted
EvalLoopEnd ==
    /\ eval.st = "loop"
    /\ eval.i = eval.iterations
    /\ eval' = [eval EXCEPT !.st = "after"]
    /\ UNCHANGED main_vars

\* lines 72-77: the value assigned after the loop
EvalReturn ==
    /\ eval.st = "after"
    /\ eval' = [eval EXCEPT !.st = "returned",
                            !.value = IF Exceeds(eval.z, eval.bound)
                                      THEN NAN ELSE Modulus(AbsSq(eval.z))]
    /\ UNCHANGED main_vars

-----------------------------------------------------------------------------
(* Grid generation: the two while loops of main *)

LoopCountPostCheck(min, max, delta) ==
    IF min <= max THEN (max - min) \div delta + 2 ELSE 1

\* how often `while c <= max { c += delta; .. }` runs its body from c = min
LoopCount(min, max, delta) ==
    IF min <= max THEN (max - min) \div delta + 1 ELSE 0

\* the coordinate the k-th run of that body uses: c is incremented before use
LoopCoord(min, delta, k) == min + k * delta

\* the inner loop runs afresh (y reset to im_min) in every run of the outer
\* loop's body, so the points are pushed column by column
GridPoints(g, nx, ny) ==
    [k \in 1..(nx * ny) |->
        Point(<< LoopCoord(g.re_min, g.delta, ((k - 1) \div ny) + 1),
                 LoopCoord(g.im_min, g.delta, ((k - 1) % ny) + 1) >>,
              Modulus(0))]

GenerateGridData(g) ==
    LET nx == LoopCount(g.re_min, g.re_max, g.delta)
        ny == LoopCount(g.im_min, g.im_max, g.delta)
    IN  IF nx = 0 \/ ny = 0 THEN <<>> ELSE GridPoints(g, nx, ny)

-----------------------------------------------------------------------------
(* Partitioning: grid_data.chunks(grid_data.len() / config.threads) *)

ChunkSizeFromLastIndex(len, threads) == (len - 1) \div threads

ChunkSize(len, threads) == len \div threads

Min(a, b) == IF a <= b THEN a ELSE b

RECURSIVE ChunksExact(_, _)
ChunksExact(s, size) ==
    IF Len(s) < size THEN <<>>
    ELSE <<SubSeq(s, 1, size)>> \o ChunksExact(SubSeq(s, size + 1, Len(s)), size)

\* slice::chunks(size): consecutive slices of `size` elements, the last one
\* shorter when size does not divide the length
RECURSIVE Chunks(_, _)
Chunks(s, size) ==
    IF s = <<>> THEN <<>>
    ELSE LET n == Min(size, Len(s))
         IN  <<SubSeq(s, 1, n)>> \o Chunks(SubSeq(s, n + 1, Len(s)), size)

-----------------------------------------------------------------------------
(* Inputs *)

SmallGrids ==
    { Grid(-1, -1 + ex, 0, ey, d) :
        ex \in 0..MaxExtent, ey \in 0..MaxExtent, d \in 1..MaxDelta }

SmallConfigs ==
    { Config(g, 2, 2, th) : g \in SmallGrids, th \in 0..MaxThreads }

\* one column of BigExtent + 1 samples evaluated by a single task
BigConfig == Config(Grid(0, 0, 0, BigExtent, 1), 1, 2, 1)

Configs == SmallConfigs \cup {BigConfig}

Files ==
    { [kind |-> "ok", contents |-> c] : c \in Configs }
        \cup { [kind |-> k, contents |-> NoConfig] : k \in {"missing", "corrupt"} }

-----------------------------------------------------------------------------
(* The channel *)

ReceiverDroppedWithSender == pc \in {"load", "grid", "partition", "spawn"}

\* the Receiver lives in main's frame until main returns or unwinds
ReceiverAlive == pc \notin {"done", "panicked", "error"}

Disconnected(q, s) == s = {}

\* recv() returns Err: nothing buffered and every Sender dropped
ChannelClosed(q, s) == q = <<>> /\ s = {}

total_work_amount == Len(grid_data)

\* {progress_percentage:.2} of (total_progress / total_work_amount) * 100
Percentage(done, total) == (2 * 10000 * done + total) \div (2 * total)

-----------------------------------------------------------------------------
Init ==
    /\ pc = "load"
    /\ file \in Files
    /\ config = NoConfig
    /\ grid_data = <<>>
    /\ grid_data_vecs = <<>>
    /\ workers = <<>>
    /\ senders = {0}
    /\ queue = <<>>
    /\ emitted = <<>>
    /\ total_progress = 0
    /\ progress_percentage = 0
    /\ joined = 0
    /\ points_done_vec = <<>>
    /\ exported = <<>>
    /\ eval = EvalIdle

(* main, lines 102-109 *)

LoadConfig ==
    /\ pc = "load"
    /\ file.kind = "ok"
    /\ config' = file.contents
    /\ pc' = "grid"
    /\ UNCHANGED << eval, file, grid_data, grid_data_vecs, workers, senders, queue, emitted,
                    total_progress, progress_percentage, joined, points_done_vec,
                    exported >>

LoadDefaultNotPersisted ==
    /\ pc = "load"
    /\ file.kind # "ok"
    /\ config' = DefaultConfig
    /\ pc' = "grid"
    /\ UNCHANGED << eval, file, grid_data, grid_data_vecs, workers, senders, queue, emitted,
                    total_progress, progress_percentage, joined, points_done_vec,
                    exported >>

\* Config::default() and write_config_to_file(&config) returning Ok
LoadDefault ==
    /\ pc = "load"
    /\ file.kind # "ok"
    /\ config' = DefaultConfig
    /\ file' = [kind |-> "ok", contents |-> DefaultConfig]
    /\ pc' = "grid"
    /\ UNCHANGED << eval, grid_data, grid_data_vecs, workers, senders, queue, emitted,
                    total_progress, progress_percentage, joined, points_done_vec,
                    exported >>

\* write_config_to_file(&config)? returns the error from main; File::create
\* may already have truncated the file when a later step of the write fails
LoadDefaultWriteFails ==
    /\ pc = "load"
    /\ file.kind # "ok"
    /\ file' \in {file, [kind |-> "corrupt", contents |-> NoConfig]}
    /\ pc' = "error"
    /\ senders' = {}
    /\ UNCHANGED << eval, config, grid_data, grid_data_vecs, workers, queue, emitted,
                    total_progress, progress_percentage, joined, points_done_vec,
                    exported >>

(* main, lines 111-133 *)

GenerateGrid ==
    /\ pc = "grid"
    /\ grid_data' = GenerateGridData(config.grid)
    /\ pc' = "partition"
    /\ UNCHANGED << eval, file, config, grid_data_vecs, workers, senders, queue, emitted,
                    total_progress, progress_percentage, joined, points_done_vec,
                    exported >>

(* main, lines 137-142 *)

\* len / 0 panics (division by zero); chunks(0) panics (chunk size must be non-zero)
PartitionPanics(len, threads) ==
    IF threads = 0 THEN TRUE ELSE ChunkSize(len, threads) = 0

Partition ==
    /\ pc = "partition"
    /\ ~PartitionPanics(Len(grid_data), config.threads)
    /\ grid_data_vecs' = Chunks(grid_data, ChunkSize(Len(grid_data), config.threads))
    /\ pc' = "spawn"
    /\ UNCHANGED << eval, file, config, grid_data, workers, senders, queue, emitted,
                    total_progress, progress_percentage, joined, points_done_vec,
                    exported >>

PartitionPanic ==
    /\ pc = "partition"
    /\ PartitionPanics(Len(grid_data), config.threads)
    /\ pc' = "panicked"
    /\ senders' = {}
    /\ UNCHANGED << eval, file, config, grid_data, grid_data_vecs, workers, queue, emitted,
                    total_progress, progress_percentage, joined, points_done_vec,
                    exported >>

(* main, lines 144-164: one iteration of the spawn loop *)

SpawnFirstChunk ==
    /\ pc = "spawn"
    /\ Len(workers) < Len(grid_data_vecs)
    /\ LET w == Len(workers) + 1
       IN  /\ workers' = Append(workers,
                  [v |-> grid_data_vecs[1], points_done |-> <<>>, st |-> "running"])
           /\ senders' = senders \cup {w}
           /\ emitted' = Append(emitted, <<>>)
    /\ UNCHANGED << eval, pc, file, config, grid_data, grid_data_vecs, queue,
                    total_progress, progress_percentage, joined, points_done_vec,
                    exported >>

Spawn ==
    /\ pc = "spawn"
    /\ Len(workers) < Len(grid_data_vecs)
    /\ LET w == Len(workers) + 1
       IN  /\ workers' = Append(workers,
                  [v |-> grid_data_vecs[w], points_done |-> <<>>, st |-> "running"])
           /\ senders' = senders \cup {w}
           /\ emitted' = Append(emitted, <<>>)
    /\ UNCHANGED << eval, pc, file, config, grid_data, grid_data_vecs, queue,
                    total_progress, progress_percentage, joined, points_done_vec,
                    exported >>

(* main, line 166 *)

DropSenderKept ==
    /\ pc = "spawn"
    /\ Len(workers) = Len(grid_data_vecs)
    /\ pc' = "drain"
    /\ UNCHANGED << eval, file, config, grid_data, grid_data_vecs, workers, senders, queue,
                    emitted, total_progress, progress_percentage, joined,
                    points_done_vec, exported >>

DropSender ==
    /\ pc = "spawn"
    /\ Len(workers) = Len(grid_data_vecs)
    /\ senders' = senders \ {0}
    /\ pc' = "drain"
    /\ UNCHANGED << eval, file, config, grid_data, grid_data_vecs, workers, queue, emitted,
                    total_progress, progress_percentage, joined, points_done_vec,
                    exported >>

(* main, lines 168-174 *)

Recv ==
    /\ pc = "drain"
    /\ queue # <<>>
    /\ total_progress' = total_progress + Head(queue)
    /\ progress_percentage' = Percentage(total_progress', total_work_amount)
    /\ queue' = Tail(queue)
    /\ UNCHANGED << eval, pc, file, config, grid_data, grid_data_vecs, workers, senders,
                    emitted, joined, points_done_vec, exported >>

RecvErr ==
    /\ pc = "drain"
    /\ ChannelClosed(queue, senders)
    /\ pc' = "join"
    /\ UNCHANGED << eval, file, config, grid_data, grid_data_vecs, workers, senders, queue,
                    emitted, total_progress, progress_percentage, joined,
                    points_done_vec, exported >>

(* main, lines 180-183: one iteration of the join loop *)

JoinReversed ==
    /\ pc = "join"
    /\ joined < Len(workers)
    /\ workers[Len(workers) - joined].st = "finished"
    /\ points_done_vec' = points_done_vec \o workers[Len(workers) - joined].points_done
    /\ joined' = joined + 1
    /\ UNCHANGED << eval, pc, file, config, grid_data, grid_data_vecs, workers, senders,
                    queue, emitted, total_progress, progress_percentage, exported >>

Join ==
    /\ pc = "join"
    /\ joined < Len(workers)
    /\ workers[joined + 1].st = "finished"
    /\ points_done_vec' = points_done_vec \o workers[joined + 1].points_done
    /\ joined' = joined + 1
    /\ UNCHANGED << eval, pc, file, config, grid_data, grid_data_vecs, workers, senders,
                    queue, emitted, total_progress, progress_percentage, exported >>

JoinDone ==
    /\ pc = "join"
    /\ joined = Len(workers)
    /\ pc' = "export"
    /\ UNCHANGED << eval, file, config, grid_data, grid_data_vecs, workers, senders, queue,
                    emitted, total_progress, progress_percentage, joined,
                    points_done_vec, exported >>

(* main, lines 185-197 *)

Row(p) == << p.position[1], p.position[2], p.value >>

Export ==
    /\ pc = "export"
    /\ exported' = [i \in 1..Len(points_done_vec) |-> Row(points_done_vec[i])]
    /\ pc' = "done"
    /\ UNCHANGED << eval, file, config, grid_data, grid_data_vecs, workers, senders, queue,
                    emitted, total_progress, progress_percentage, joined,
                    points_done_vec >>

-----------------------------------------------------------------------------
(* The spawned task, lines 148-161 *)

SendBounded(w, n, nw) ==
    /\ Len(queue) < 1
    /\ IF ReceiverAlive
       THEN /\ queue' = Append(queue, n)
            /\ emitted' = [emitted EXCEPT ![w] = Append(@, n)]
            /\ workers' = [workers EXCEPT ![w] = nw]
            /\ UNCHANGED senders
       ELSE /\ workers' = [workers EXCEPT ![w] = [nw EXCEPT !.st = "panicked"]]
            /\ senders' = senders \ {w}
            /\ UNCHANGED << queue, emitted >>

\* sender.send(n).expect(..) by task w, the task's other fields already updated in nw
Send(w, n, nw) ==
    IF ReceiverAlive
    THEN /\ queue' = Append(queue, n)
         /\ emitted' = [emitted EXCEPT ![w] = Append(@, n)]
         /\ workers' = [workers EXCEPT ![w] = nw]
         /\ UNCHANGED senders
    ELSE /\ workers' = [workers EXCEPT ![w] = [nw EXCEPT !.st = "panicked"]]
         /\ senders' = senders \ {w}
         /\ UNCHANGED << queue, emitted >>

BatchDueBeforePush(done) == (Len(done) - 1) % BATCH = 0

\* points_done.len() % 1000 == 0, evaluated after the push
BatchDue(done) == Len(done) % BATCH = 0

WorkerEvalPrepend(w) ==
    /\ workers[w].st = "running"
    /\ workers[w].v # <<>>
    /\ LET done == << mandelbrot_result(Head(workers[w].v), config) >>
                       \o workers[w].points_done
           nw == [workers[w] EXCEPT !.v = Tail(@), !.points_done = done]
       IN  IF BatchDue(done)
           THEN Send(w, BATCH, nw)
           ELSE /\ workers' = [workers EXCEPT ![w] = nw]
                /\ UNCHANGED << senders, queue, emitted >>
    /\ UNCHANGED << eval, pc, file, config, grid_data, grid_data_vecs, total_progress,
                    progress_percentage, joined, points_done_vec, exported >>

\* one iteration of `for point in v`
WorkerEval(w) ==
    /\ workers[w].st = "running"
    /\ workers[w].v # <<>>
    /\ LET done == Append(workers[w].points_done,
                          mandelbrot_result(Head(workers[w].v), config))
           nw == [workers[w] EXCEPT !.v = Tail(@), !.points_done = done]
       IN  IF BatchDue(done)
           THEN Send(w, BATCH, nw)
           ELSE /\ workers' = [workers EXCEPT ![w] = nw]
                /\ UNCHANGED << senders, queue, emitted >>
    /\ UNCHANGED << eval, pc, file, config, grid_data, grid_data_vecs, total_progress,
                    progress_percentage, joined, points_done_vec, exported >>

FinalSignalZero(done) == 0

FinalSignalFullBatch(done) == BATCH

FinalSignal(done) == Len(done) % BATCH

\* the send after the loop
WorkerFinalSend(w) ==
    /\ workers[w].st = "running"
    /\ workers[w].v = <<>>
    /\ Send(w, FinalSignal(workers[w].points_done),
            [workers[w] EXCEPT !.st = "returning"])
    /\ UNCHANGED << eval, pc, file, config, grid_data, grid_data_vecs, total_progress,
                    progress_percentage, joined, points_done_vec, exported >>

\* the async block returns points_done: its sender is dropped and the output
\* becomes available to the JoinHandle
WorkerReturn(w) ==
    /\ workers[w].st = "returning"
    /\ workers' = [workers EXCEPT ![w].st = "finished"]
    /\ senders' = senders \ {w}
    /\ UNCHANGED << eval, pc, file, config, grid_data, grid_data_vecs, queue, emitted,
                    total_progress, progress_percentage, joined, points_done_vec,
                    exported >>

-----------------------------------------------------------------------------
Next ==
    \/ LoadConfig
    \/ LoadDefault
    \/ LoadDefaultWriteFails
    \/ GenerateGrid
    \/ Partition
    \/ PartitionPanic
    \/ Spawn
    \/ DropSender
    \/ Recv
    \/ RecvErr
    \/ Join
    \/ JoinDone
    \/ Export
    \/ \E w \in 1..Len(workers) : WorkerEval(w)
    \/ \E w \in 1..Len(workers) : WorkerFinalSend(w)
    \/ \E w \in 1..Len(workers) : WorkerReturn(w)

Spec == Init /\ [][Next]_vars

\* The tokio runtime runs every spawned task and main's thread to completion
\* of each step: no enabled step is postponed forever.
FairSpec == Spec /\ WF_vars(Next)

-----------------------------------------------------------------------------
(* Injected fault: a send of task w returns Err, so its expect panics; the  *)
(* task unwinds, dropping its Sender, and its JoinHandle yields a JoinError *)

AtSend(w) ==
    /\ workers[w].st = "running"
    /\ \/ workers[w].v = <<>>
       \/ (Len(workers[w].points_done) + 1) % BATCH = 0

WorkerSendFails(w) ==
    /\ AtSend(w)
    /\ workers' = [workers EXCEPT ![w].st = "panicked"]
    /\ senders' = senders \ {w}
    /\ UNCHANGED << eval, pc, file, config, grid_data, grid_data_vecs, queue, emitted,
                    total_progress, progress_percentage, joined, points_done_vec,
                    exported >>

JoinSkipsFailed ==
    /\ pc = "join"
    /\ joined < Len(workers)
    /\ workers[joined + 1].st = "panicked"
    /\ joined' = joined + 1
    /\ UNCHANGED << eval, pc, file, config, grid_data, grid_data_vecs, workers, senders,
                    queue, emitted, total_progress, progress_percentage,
                    points_done_vec, exported >>

\* join_handle.await.expect("could not join thread") on a JoinError
JoinPanic ==
    /\ pc = "join"
    /\ joined < Len(workers)
    /\ workers[joined + 1].st = "panicked"
    /\ pc' = "panicked"
    /\ UNCHANGED << eval, file, config, grid_data, grid_data_vecs, workers, senders, queue,
                    emitted, total_progress, progress_percentage, joined,
                    points_done_vec, exported >>

FaultNext ==
    \/ Next
    \/ \E w \in 1..Len(workers) : WorkerSendFails(w)
    \/ JoinPanic

FaultSpec == Init /\ [][FaultNext]_vars

-----------------------------------------------------------------------------
(* mandelbrot_result on its own: the inputs of one call are drawn from       *)
(* bounded sets, main does not run                                           *)

\* the point 10 + 10i, far outside every explored radius
FarPoint == << 10, 10 >>

EvalPositions ==
    { << x, y >> : x \in -MaxCoord..MaxCoord, y \in -MaxCoord..MaxCoord }
        \cup { FarPoint }

EvalInit ==
    /\ pc = "eval"
    /\ file = [kind |-> "missing", contents |-> NoConfig]
    /\ config = NoConfig
    /\ grid_data = <<>>
    /\ grid_data_vecs = <<>>
    /\ workers = <<>>
    /\ senders = {}
    /\ queue = <<>>
    /\ emitted = <<>>
    /\ total_progress = 0
    /\ progress_percentage = 0
    /\ joined = 0
    /\ points_done_vec = <<>>
    /\ exported = <<>>
    /\ \E c \in EvalPositions, n \in 0..MaxIterations, b \in 1..MaxBound :
           eval = EvalCall(c, n, b)

EvalNext ==
    \/ EvalPass
    \/ EvalLoopEnd
    \/ EvalReturn

EvalSpec == EvalInit /\ [][EvalNext]_vars

-----------------------------------------------------------------------------
(* Vocabulary of the properties *)

Positions(s) == [i \in 1..Len(s) |-> s[i].position]

Range(s) == { s[i] : i \in 1..Len(s) }

BagOf(s) == [x \in Range(s) |-> Cardinality({ i \in 1..Len(s) : s[i] = x })]

RECURSIVE Sum(_)
Sum(s) == IF s = <<>> THEN 0 ELSE Head(s) + Sum(Tail(s))

Repeat(x, n) == [i \in 1..n |-> x]

Abs(n) == IF n < 0 THEN -n ELSE n

GridGenerated == pc \notin {"load", "grid", "error"}

Partitioned == grid_data_vecs # <<>>

AllSpawned == Partitioned /\ pc # "spawn"

Collected == pc \in {"export", "done"}

ValidThreads == GridGenerated /\ config.threads \in 1..Len(grid_data)

SomePanicked == \E w \in 1..Len(workers) : workers[w].st = "panicked"

-----------------------------------------------------------------------------
(* Claims *)

\* C1: once the join loop has built the final collection, its size is the
\* total sample count and the multiset of its positions is the multiset of
\* the generated positions, whatever the partitioning and the interleaving.
C1_PartitionInvariance ==
    Collected =>
        /\ Len(points_done_vec) = total_work_amount
        /\ BagOf(Positions(points_done_vec)) = BagOf(Positions(grid_data))

C1_Witness ==
    /\ pc = "done"
    /\ Len(workers) >= 3
    /\ Len(grid_data_vecs[Len(grid_data_vecs)]) < Len(grid_data_vecs[1])
    /\ Len(points_done_vec) = total_work_amount

\* C2: when the receive loop has ended, the running total is the total sample
\* count and the percentage printed last is 100.00.
C2_ProgressReconciles ==
    (AllSpawned /\ pc \in {"join", "export", "done"}) =>
        /\ total_progress = total_work_amount
        /\ progress_percentage = 10000

C2_Witness ==
    /\ pc = "join"
    /\ Len(workers) >= 3
    /\ total_progress = total_work_amount
    /\ progress_percentage = 10000

\* C3: a task has sent one signal of 1000 for every 1000 samples it has
\* completed; once past its final send it has sent, in addition, the
\* remainder n mod 1000 of its chunk size n, and its signals sum to n.
C3_WorkerSignals ==
    \A w \in 1..Len(workers) :
        LET n == Len(grid_data_vecs[w])
            done == Len(workers[w].points_done)
        IN  /\ workers[w].st = "running" =>
                emitted[w] = Repeat(BATCH, done \div BATCH)
            /\ workers[w].st \in {"returning", "finished"} =>
                /\ done = n
                /\ emitted[w] = Repeat(BATCH, n \div BATCH) \o << n % BATCH >>
                /\ Sum(emitted[w]) = n

C3_Witness ==
    \E w \in 1..Len(workers) :
        /\ workers[w].st = "finished"
        /\ emitted[w] = << BATCH, Len(grid_data_vecs[w]) - BATCH >>
        /\ emitted[w][2] > 0

\* C4 (as claimed): for a worker count in [1, total sample count] the
\* partitioning yields exactly worker_count chunks whose sizes differ by at
\* most one, and exactly worker_count tasks are spawned.
C4_ExactlyWorkerCountChunks ==
    (ValidThreads /\ Partitioned) =>
        /\ Len(grid_data_vecs) = config.threads
        /\ \A i, j \in 1..Len(grid_data_vecs) :
               Abs(Len(grid_data_vecs[i]) - Len(grid_data_vecs[j])) <= 1
        /\ AllSpawned => Len(workers) = config.threads

\* C5 (as claimed): a worker count of zero or above the total sample count is
\* rejected before the grid is generated; main never fails on it later.
InvalidThreads(cfg) ==
    cfg.threads = 0 \/ cfg.threads > Len(GenerateGridData(cfg.grid))

C5_InvalidThreadsRejectedEarly ==
    (pc \notin {"load", "error"} /\ InvalidThreads(config)) =>
        /\ grid_data = <<>>
        /\ pc # "panicked"

\* C6: for a valid configuration, under fair scheduling, the receive loop
\* ends and main reaches the export and completes; in particular, once every
\* sender handle is released the pending signals are received and the
\* receive loop ends.
C6_RunTerminates ==
    /\ (pc = "partition" /\ ValidThreads) ~> (pc = "done")
    /\ (pc = "drain" /\ senders = {}) ~> (pc = "join" /\ queue = <<>>)

C6_Witness ==
    /\ pc = "done"
    /\ ValidThreads
    /\ Len(workers) >= 2
    /\ exported # <<>>

\* C7: whenever main is in or past the join loop, every sender handle (main's
\* and each task's) has been released, nothing is buffered in the channel and
\* every signal ever sent has been received.
C7_JoinAfterDrain ==
    (AllSpawned /\ pc \in {"join", "export", "done"}) =>
        /\ senders = {}
        /\ queue = <<>>
        /\ total_progress = Sum([w \in 1..Len(emitted) |-> Sum(emitted[w])])

C7_Witness ==
    /\ pc = "join"
    /\ joined = 1
    /\ Len(workers) >= 2
    /\ total_progress > 0

\* C8 (as claimed): the generated positions include the column re = re_min
\* and the row im = im_min, and none lies outside the rectangle.
InRectangle(p, g) ==
    /\ g.re_min <= p[1] /\ p[1] <= g.re_max
    /\ g.im_min <= p[2] /\ p[2] <= g.im_max

C8_GridCoversRectangle ==
    GridGenerated =>
        /\ \E i \in 1..Len(grid_data) : grid_data[i].position[1] = config.grid.re_min
        /\ \E i \in 1..Len(grid_data) : grid_data[i].position[2] = config.grid.im_min
        /\ \A i \in 1..Len(grid_data) : InRectangle(grid_data[i].position, config.grid)

\* C9: with one thread configured the partitioning yields the whole sequence
\* as its single chunk, one task is spawned, and the final collection has as
\* many samples as were generated.
C9_SingleWorker ==
    (GridGenerated /\ config.threads = 1) =>
        /\ pc # "panicked"
        /\ Partitioned => grid_data_vecs = << grid_data >>
        /\ AllSpawned => Len(workers) = 1
        /\ Collected => Len(points_done_vec) = Len(grid_data)

C9_Witness ==
    /\ pc = "done"
    /\ config.threads = 1
    /\ Len(grid_data) >= 2
    /\ Len(points_done_vec) = Len(grid_data)

\* C10: when a task has terminated abnormally, main never reaches the export:
\* nothing is written out, and joining the failed task ends main.
C10_WorkerFailureAborts ==
    SomePanicked =>
        /\ ~Collected
        /\ exported = <<>>
        /\ ~(pc = "join" /\ joined = Len(workers))

C10_Witness ==
    /\ pc = "panicked"
    /\ SomePanicked
    /\ points_done_vec # <<>>
    /\ \E w \in 1..Len(workers) :
           workers[w].st = "finished" /\ workers[w].points_done # <<>>
    /\ exported = <<>>

\* The orbit of 0 under z <- z^2 + c, with no radius involved: z_k
Orbit(c, k) ==
    LET O[j \in Nat] ==
            IF j = 0 THEN << 0, 0 >> ELSE CAdd(CMul(O[j - 1], O[j - 1]), c)
    IN  O[k]

\* |z_k| > radius
OrbitOutside(c, k, radius) == AbsSq(Orbit(c, k)) > radius * radius

\* the first k in 1..n with |z_k| > radius, or 0 when there is none
FirstOutside(c, n, radius) ==
    IF \E k \in 1..n : OrbitOutside(c, k, radius)
    THEN CHOOSE k \in 1..n :
            /\ OrbitOutside(c, k, radius)
            /\ \A j \in 1..(k - 1) : ~OrbitOutside(c, j, radius)
    ELSE 0

EvalAsCalled == mandelbrot_result(Point(eval.c, Modulus(0)),
                                  Config(NoConfig.grid, eval.iterations, eval.bound, 1))

\* C11: evaluating the origin with max_iterations >= 1 and a radius > 0 keeps
\* the accumulator at 0 in every pass, runs all passes and returns the finite
\* modulus 0, never the not-a-number sentinel.
C11_OriginConverges ==
    (eval.st # "idle" /\ eval.c = << 0, 0 >> /\ eval.iterations >= 1
        /\ eval.bound > 0) =>
        /\ eval.z = << 0, 0 >>
        /\ eval.st = "after" => eval.i = eval.iterations
        /\ eval.st = "returned" =>
            /\ eval.value = Modulus(0)
            /\ eval.i = eval.iterations
        /\ EvalAsCalled.value = Modulus(0)

C11_Witness ==
    /\ eval.st = "returned"
    /\ eval.c = << 0, 0 >>
    /\ eval.iterations = MaxIterations
    /\ eval.i = MaxIterations
    /\ eval.value = Modulus(0)

\* C12: the call returns the not-a-number sentinel exactly when some z_k,
\* 1 <= k <= max_iterations, has modulus above the radius, and then it has run
\* exactly the passes up to the first such k; otherwise it has run all
\* passes and returns the modulus of z after max_iterations passes.
C12_DivergedIffOrbitLeaves ==
    eval.st = "returned" =>
        LET k == FirstOutside(eval.c, eval.iterations, eval.bound)
        IN  /\ EvalAsCalled.value = eval.value
            /\ k > 0 => (eval.value = NAN /\ eval.i = k)
            /\ k = 0 =>
                /\ eval.i = eval.iterations
                /\ eval.value = Modulus(AbsSq(Orbit(eval.c, eval.iterations)))

C12_Witness ==
    /\ eval.st = "returned"
    /\ eval.c = FarPoint
    /\ eval.bound = 2
    /\ eval.iterations >= 2
    /\ eval.i = 1
    /\ eval.value = NAN

\* the coordinates used on one axis (1: re, 2: im)
Coords(s, axis) == { s[i].position[axis] : i \in 1..Len(s) }

\* the number of samples of the line on which the other axis has coordinate c
SamplesInLine(s, other, c) ==
    Cardinality({ i \in 1..Len(s) : s[i].position[other] = c })

\* every line of the grid along `axis` has the same number n of samples, n
\* being 1 or 2, and these are n distinct coordinates
OneOrTwoPerLine(s, axis, other) ==
    \E n \in {1, 2} :
        /\ Cardinality(Coords(s, axis)) = n
        /\ \A c \in Coords(s, other) : SamplesInLine(s, other, c) = n

\* C13: when delta is the whole extent of the rectangle on one axis, the
\* generated grid has 1 or 2 samples on that axis, the same number in every
\* row (for the real axis) or column (for the imaginary axis).
C13_ExtentEqualsDelta ==
    GridGenerated =>
        LET g == config.grid
        IN  /\ g.re_max - g.re_min = g.delta =>
                (grid_data # <<>> /\ OneOrTwoPerLine(grid_data, 1, 2))
            /\ g.im_max - g.im_min = g.delta =>
                (grid_data # <<>> /\ OneOrTwoPerLine(grid_data, 2, 1))

C13_Witness ==
    /\ pc = "partition"
    /\ config.grid.re_max - config.grid.re_min = config.grid.delta
    /\ config.grid.im_max - config.grid.im_min # config.grid.delta
    /\ Cardinality(Coords(grid_data, 2)) >= 2
    /\ SamplesInLine(grid_data, 2, config.grid.im_min + config.grid.delta) = 2

NothingStarted == grid_data = <<>> /\ grid_data_vecs = <<>> /\ workers = <<>>

\* C14: a step of main from a failed load either takes the defaults, with the
\* file then holding them and the grid not yet generated, or ends main with
\* the error before any sample is generated or task spawned; an ended main
\* stays so, and whenever the run uses the defaults the file holds them.
C14_LoadFailureFallsBack ==
    [][ /\ (pc = "load" /\ file.kind # "ok") =>
            \/ /\ pc' = "grid"
               /\ config' = DefaultConfig
               /\ file' = [kind |-> "ok", contents |-> DefaultConfig]
               /\ NothingStarted'
            \/ /\ pc' = "error"
               /\ NothingStarted'
        /\ pc = "error" => (pc' = "error" /\ NothingStarted')
        /\ (pc' # "error" /\ config' = DefaultConfig) =>
            file' = [kind |-> "ok", contents |-> DefaultConfig]
      ]_vars

C14_Witness ==
    /\ pc = "grid"
    /\ config = DefaultConfig
    /\ file = [kind |-> "ok", contents |-> DefaultConfig]
    /\ NothingStarted

NeverOverReported ==
    /\ \A w \in 1..Len(workers) :
           /\ \A k \in 1..Len(emitted[w]) : emitted[w][k] >= 0
           /\ Sum(emitted[w]) <= Len(workers[w].points_done)
    /\ \A k \in 1..Len(queue) : queue[k] >= 0
    /\ total_progress >= 0
    /\ total_progress <= total_work_amount
    /\ progress_percentage <= 10000

\* C15: in every reachable state every signal sent or buffered is
\* non-negative, the signals a task has sent sum to at most the number of
\* samples it has pushed to points_done, the running total is at most the
\* total sample count and the printed percentage at most 100.00; and no step
\* decreases the running total.
C15_ProgressNeverOverReported ==
    /\ []NeverOverReported
    /\ [][total_progress' >= total_progress]_vars

C15_Witness ==
    /\ pc = "drain"
    /\ 0 < total_progress
    /\ total_progress < total_work_amount
    /\ 0 < progress_percentage
    /\ \E w \in 1..Len(workers) :
           /\ workers[w].st = "running"
           /\ Len(workers[w].points_done) >= 2
           /\ Sum(emitted[w]) < Len(workers[w].points_done)

\* the next step of task w, whichever it is
WorkerStep(w) == WorkerEval(w) \/ WorkerFinalSend(w) \/ WorkerReturn(w)

Unfinished(w) == workers[w].st \in {"running", "returning"}

NoWorkerBlocked ==
    \A w \in 1..Len(workers) : Unfinished(w) => ENABLED WorkerStep(w)

\* what a step may do to task w: nothing, move the head of its own v,
\* evaluated, to the end of its own points_done, or change its status only
OwnStep(w) ==
    LET a == workers[w]
        b == workers'[w]
    IN  \/ b = a /\ emitted'[w] = emitted[w]
        \/ /\ a.v # <<>>
           /\ b.v = Tail(a.v)
           /\ b.points_done =
                  Append(a.points_done, mandelbrot_result(Head(a.v), config))
        \/ /\ b.v = a.v
           /\ b.points_done = a.points_done

WorkersIsolated ==
    /\ Len(workers') >= Len(workers)
    /\ \A w \in 1..Len(workers) : OwnStep(w)
    /\ \A w, u \in 1..Len(workers) :
           (w # u /\ (workers'[w] # workers[w] \/ emitted'[w] # emitted[w])) =>
               (workers'[u] = workers[u] /\ emitted'[u] = emitted[u])

RECURSIVE Flatten(_)
Flatten(ss) == IF ss = <<>> THEN <<>> ELSE Head(ss) \o Flatten(Tail(ss))

\* the samples of s, each finalized by one application of the evaluator
Finalized(s) == [i \in 1..Len(s) |-> mandelbrot_result(s[i], config)]

FinalizedOnce ==
    /\ Partitioned => Flatten(grid_data_vecs) = grid_data
    /\ \A w \in 1..Len(workers) :
           LET chunk == grid_data_vecs[w]
               done == workers[w].points_done
           IN  /\ Len(done) <= Len(chunk)
               /\ done = Finalized(SubSeq(chunk, 1, Len(done)))
               /\ workers[w].v = SubSeq(chunk, Len(done) + 1, Len(chunk))
    /\ points_done_vec = Flatten([w \in 1..joined |-> workers[w].points_done])
    /\ Collected => points_done_vec = Finalized(grid_data)
    /\ pc = "done" =>
           exported = [i \in 1..Len(grid_data) |-> Row(Finalized(grid_data)[i])]

OutcomesKept ==
    /\ \A w \in 1..Len(workers) :
           /\ Len(workers'[w].points_done) >= Len(workers[w].points_done)
           /\ \A i \in 1..Len(workers[w].points_done) :
                  workers'[w].points_done[i] = workers[w].points_done[i]
    /\ Len(points_done_vec') >= Len(points_done_vec)
    /\ \A i \in 1..Len(points_done_vec) : points_done_vec'[i] = points_done_vec[i]
    /\ exported # <<>> => exported' = exported

\* C17: every sample lies in exactly one chunk; of the chunk of a task, the
\* samples before its position have been evaluated once each, by that task,
\* and the others not at all; the final collection and the exported rows hold
\* exactly one evaluated sample per generated sample; and no step changes a
\* value once it is in a task's output, in the final collection or exported.
C17_FinalizedExactlyOnce ==
    /\ []FinalizedOnce
    /\ [][OutcomesKept]_vars

C17_Witness ==
    /\ pc = "done"
    /\ Len(workers) >= 2
    /\ Len(exported) = Len(grid_data)
    /\ \E i, j \in 1..Len(exported) :
           /\ exported[i][3] = NAN
           /\ exported[j][3] # NAN
           /\ exported[j][3] # Modulus(0)

\* C18: in every reachable state, and so in what a task returns, the i-th
\* element of a task's output has the position of the i-th sample of the
\* task's chunk, for every task and every i.
C18_OutputInChunkOrder ==
    \A w \in 1..Len(workers) :
        /\ Len(workers[w].points_done) <= Len(grid_data_vecs[w])
        /\ \A i \in 1..Len(workers[w].points_done) :
               workers[w].points_done[i].position = grid_data_vecs[w][i].position
        /\ workers[w].st \in {"returning", "finished"} =>
               Positions(workers[w].points_done) = Positions(grid_data_vecs[w])

C18_Witness ==
    \E w \in 1..Len(workers) :
        /\ w >= 2
        /\ workers[w].st = "finished"
        /\ Len(workers[w].points_done) >= 3
        /\ Positions(workers[w].points_done) = Positions(grid_data_vecs[w])
        /\ workers[w].points_done[1].position # workers[w].points_done[3].position

\* C19: the positions of the final collection are the generated positions in
\* generation order, in every run that reaches the end of the join loop,
\* whatever the number of tasks and the order in which they ran and returned;
\* during the join loop the collection is a prefix of that sequence.
C19_CollectionInGenerationOrder ==
    /\ pc = "join" =>
           Positions(points_done_vec)
               = SubSeq(Positions(grid_data), 1, Len(points_done_vec))
    /\ Collected => Positions(points_done_vec) = Positions(grid_data)

C19_Witness ==
    /\ pc = "export"
    /\ Len(workers) >= 3
    /\ config.threads < Len(workers)
    /\ Positions(points_done_vec) = Positions(grid_data)
    /\ points_done_vec[1].position # points_done_vec[Len(points_done_vec)].position

\* task w has a send ahead of it
CanSend(w) == workers[w].st = "running"

\* C20: in a run without injected faults the receiver is alive in every state
\* in which some task still has a send ahead of it, every sender handle has
\* been released when the receiver is gone, and no task has terminated
\* abnormally: no send has failed.
C20_NoSendFails ==
    /\ \A w \in 1..Len(workers) : CanSend(w) => ReceiverAlive
    /\ ~ReceiverAlive => senders = {}
    /\ ~SomePanicked
    /\ \A w \in 1..Len(workers) :
           workers[w].st \in {"returning", "finished"} => emitted[w] # <<>>

C20_Witness ==
    /\ pc = "drain"
    /\ ReceiverAlive
    /\ senders # {}
    /\ \E w, u \in 1..Len(workers) :
           /\ CanSend(w)
           /\ workers[w].v = <<>>
           /\ workers[u].st = "returning"
           /\ emitted[u] # <<>>

====
